---- MODULE Spec2Model ----
(***************************************************************************)
(* Model of the playwright-ts helper layer:                                *)
(*   src/src/helperUtils/WebTableHelper.ts   (table cell resolution)       *)
(*   src/src/pages/webTablePage.ts           (web-table page object)       *)
(*   src/src/pages/commonUserActionsPage.ts  (generic user actions)        *)
(*                                                                         *)
(* One test runs one operation at a time.  pc names the browser            *)
(* interaction the operation is currently awaiting; an action is the       *)
(* completion of that interaction followed by the synchronous code up to   *)
(* the next await.  The page (table, button, form fields) changes between  *)
(* interactions through the environment actions.                           *)
(***************************************************************************)
EXTENDS Integers, Sequences, FiniteSets, TLC

(***************************************************************************)
(* Strings are sequences of one-character strings, so that toLowerCase,    *)
(* trim and includes are computed and not assumed.                         *)
(***************************************************************************)
Null == <<"null">>

IsSpace(c) == c = " "

LowerChar(c) ==
  CASE c = "A" -> "a"
    [] c = "B" -> "b"
    [] c = "X" -> "x"
    [] OTHER -> c

toLowerCase(s) == [k \in 1..Len(s) |-> LowerChar(s[k])]

RECURSIVE trimStart(_)
trimStart(s) ==
  IF s # <<>> /\ IsSpace(Head(s)) THEN trimStart(Tail(s)) ELSE s

RECURSIVE trimEnd(_)
trimEnd(s) ==
  IF s # <<>> /\ IsSpace(s[Len(s)]) THEN trimEnd(SubSeq(s, 1, Len(s) - 1)) ELSE s

trim(s) == trimEnd(trimStart(s))

includes(A, B) ==
  \E k \in 0..(Len(A) - Len(B)) : SubSeq(A, k + 1, k + Len(B)) = B

normalize(text) == trim(toLowerCase(text))

match(a, b, m) ==
  IF m = "exact" THEN normalize(a) = normalize(b)
  ELSE includes(normalize(a), normalize(b))

MatchModes == {"exact", "partial"}

(***************************************************************************)
(* The rendered page.  A table has the raw texts of its `thead th` cells   *)
(* and its role=row elements in document order; a row has its innerText    *)
(* and the textContent of its role=cell children (Null: no text node).     *)
(* The header row is a role=row element whose children are column headers, *)
(* not cells.                                                              *)
(***************************************************************************)
Row(text, cells) == [text |-> text, cells |-> cells]

HeaderRowAB == Row(<<"A", " ", "B">>, <<>>)
HeaderRowBA == Row(<<"B", " ", "A">>, <<>>)
HeaderRowA  == Row(<<"A">>, <<>>)

RowXY  == Row(<<"x", " ", "y">>, << <<"x">>, <<" ", "y", " ">> >>)
RowYX  == Row(<<"y", " ", "X">>, << <<"y">>, <<"X">> >>)
RowY   == Row(<<" ", "y">>,      << <<"y">>, Null >>)
RowXb  == Row(<<"X">>,           << <<"X">>, <<" ">> >>)
RowX1  == Row(<<"x">>,           << <<"x">> >>)

TableEmpty  == [headers |-> <<>>, rows |-> <<>>]
TableHead   == [headers |-> << <<"A", " ">>, <<"a", "B">> >>, rows |-> <<HeaderRowAB>>]
TableFull   == [headers |-> << <<"A", " ">>, <<"a", "B">> >>,
                rows |-> <<HeaderRowAB, RowY, RowXY>>]
TableSwap   == [headers |-> << <<"B", " ">>, <<" ", "a">> >>,
                rows |-> <<HeaderRowBA, RowYX, RowXb>>]
TableNarrow == [headers |-> << <<"A">> >>, rows |-> <<HeaderRowA, RowX1>>]

Tables == {TableEmpty, TableHead, TableFull, TableSwap, TableNarrow}

RowTexts == { <<" ", "X">>, <<"y">>, <<"a">> }
ColumnNames == { <<"a">>, <<"B", " ">>, <<"x">> }
ExpectedValues == { <<"y">>, <<"x">>, <<" ", "y", " ">> }
Idents == { <<"a">> }
MultiValues == { <<>>, << <<" ">> >>, << <<"x">> >>, << <<"x">>, <<"y">> >> }

(***************************************************************************)
(* Time, in milliseconds.                                                  *)
(***************************************************************************)
DefaultTimeout == 5000
RetrySleep == 300
\* options?.timeout: absent, or a number of milliseconds
Undefined == <<>>
TimeoutOptions == {Undefined, <<0>>, <<700>>}

\* the label lookup placed before the role lookup
StrategiesLabelFirst == <<"label", "role", "placeholder", "xpath">>

Strategies == <<"role", "label", "placeholder", "xpath">>
MaxMatches == 2

VARIABLES
  table,          \* the currently rendered table
  targetVisible,  \* the element the running operation's own locator designates is visible
  fieldCount,     \* inputOnField: strategy -> number of elements its locator matches
  arg,            \* the running (or last) operation and its arguments
  pc,             \* the interaction being awaited; "settled" when the operation's
                  \* promise has settled, "idle" when the test has taken the result
  loc,            \* local variables of the running operation
  floating,       \* interactions issued without await and not yet settled
  outcome,        \* how the last operation's promise settled
  hist            \* history of the running operation (observations only)

vars == <<table, targetVisible, fieldCount, arg, pc, loc, floating, outcome, hist>>

env == <<table, targetVisible, fieldCount>>

(***************************************************************************)
(* Promise settlements.  An error message is recorded by the caller-passed *)
(* identifiers it contains and by whether it carries the underlying cause. *)
(* A raw browser-library error describes the locator it was waiting for,   *)
(* so it contains exactly the identifiers the locator was built from.      *)
(***************************************************************************)
Pending == [kind |-> "none", msg |-> "", ids |-> {}, cause |-> FALSE]
Resolved == [kind |-> "ok", msg |-> "", ids |-> {}, cause |-> FALSE]
Error(msg, ids, cause) == [kind |-> "error", msg |-> msg, ids |-> ids, cause |-> cause]
LibraryError(ids) == Error("library", ids, TRUE)

NoArg == <<>>
NoArgs == [op |-> "none", rowText |-> NoArg, columnName |-> NoArg, ident |-> NoArg,
           expectedValue |-> NoArg, timeout |-> DefaultTimeout, mode |-> "partial",
           columnMatchMode |-> "partial", values |-> <<>>]

NoCell == <<-1, -1>>
NoLocals == [i |-> 0, count |-> 0, row |-> -1, colIndex |-> -1, elapsed |-> 0,
             value |-> Null, values |-> <<>>, k |-> 0]
NoFields == [s \in 1..Len(Strategies) |-> 0]

NoHistory == [dirty |-> FALSE, scanDirty |-> FALSE, failed |-> FALSE, stayed |-> FALSE,
              absentAtCall |-> FALSE, selected |-> FALSE, selInRange |-> TRUE,
              queried |-> <<>>, filled |-> <<>>, prevCell |-> NoCell]

TypeOK ==
  /\ table \in Tables
  /\ targetVisible \in BOOLEAN
  /\ fieldCount \in [1..Len(Strategies) -> 0..MaxMatches]
  /\ outcome.kind \in {"none", "ok", "error"}
  /\ (pc = "settled") = (outcome.kind # "none")
  /\ (pc = "idle") = (arg.op = "none")

Init ==
  /\ table \in Tables
  /\ targetVisible = FALSE
  /\ fieldCount = NoFields
  /\ arg = NoArgs
  /\ pc = "idle"
  /\ loc = NoLocals
  /\ floating = {}
  /\ outcome = Pending
  /\ hist = NoHistory

\* the operation's promise settles; only its results outlive it
Results(l) == [NoLocals EXCEPT !.row = l.row, !.colIndex = l.colIndex,
                               !.value = l.value, !.values = l.values]
Resolve(l) == outcome' = Resolved /\ pc' = "settled" /\ loc' = Results(l)
Reject(e) == outcome' = e /\ pc' = "settled" /\ loc' = Results(loc)

(***************************************************************************)
(* WebTableHelper.getRow                                                   *)
(***************************************************************************)
HasRow(t, idx) == idx >= 0 /\ idx < Len(t.rows)
RowAt(t, idx) == t.rows[idx + 1]

\* a rendered row matches rowText: its lower-cased trimmed text contains (partial)
\* or equals (exact) the lower-cased trimmed rowText
RowMatches(row, rowText, mode) ==
  LET A == trim(toLowerCase(row.text))
      B == trim(toLowerCase(rowText))
  IN IF mode = "exact" THEN A = B ELSE includes(A, B)
HasMatchingRow(t, rowText, mode) ==
  \E r \in 1..Len(t.rows) : RowMatches(t.rows[r], rowText, mode)

GetRowPcs == {"getRow.count", "getRow.innerText", "getRow.waitForTimeout",
              "getRow.allInnerTexts"}

\* the `while (Date.now() - start < timeout)` test and the await it leads to
getRowLoopPc(elapsed, timeout) ==
  IF elapsed < timeout THEN "getRow.count" ELSE "getRow.allInnerTexts"

\* lines 63-70: timeout and mode defaults, start = Date.now(), first loop test
getRowStart(h) ==
  /\ pc' = getRowLoopPc(0, arg'.timeout)
  /\ loc' = NoLocals
  /\ hist' = [h EXCEPT
        !.stayed = /\ arg'.op = "getRow"
                   /\ HasMatchingRow(table, arg'.rowText, arg'.mode)
                   /\ 0 < arg'.timeout,
        !.absentAtCall = /\ arg'.op = "getRow"
                         /\ ~HasMatchingRow(table, arg'.rowText, arg'.mode)]

\* `return row` of getRow: resumes the caller
getRowReturn(idx) ==
  IF arg.op = "getRow"
    THEN Resolve([loc EXCEPT !.row = idx])
    ELSE /\ loc' = [NoLocals EXCEPT !.row = idx]
         /\ pc' = "getHeaders.allInnerTexts"
         /\ outcome' = outcome

\* line 70: rows.count() settles; the for loop issues the first innerText
GetRowCount ==
  /\ pc = "getRow.count"
  /\ LET count == Len(table.rows) IN
       /\ loc' = [loc EXCEPT !.count = count, !.i = 0]
       /\ pc' = IF 0 < count THEN "getRow.innerText" ELSE "getRow.waitForTimeout"
  /\ hist' = [hist EXCEPT !.scanDirty = FALSE]
  /\ UNCHANGED <<env, arg, floating, outcome>>

\* line 74-78: rows.nth(i).innerText() settles
GetRowInnerText ==
  /\ pc = "getRow.innerText"
  /\ IF HasRow(table, loc.i)
       THEN IF match(trim(RowAt(table, loc.i).text), arg.rowText, arg.mode)
              THEN getRowReturn(loc.i) /\ hist' = hist
              ELSE /\ loc' = [loc EXCEPT !.i = @ + 1]
                   /\ pc' = IF loc.i + 1 < loc.count THEN "getRow.innerText"
                            ELSE "getRow.waitForTimeout"
                   /\ UNCHANGED <<outcome, hist>>
       ELSE \* the row is gone: the library times out waiting for it
            /\ Reject(LibraryError({}))
            /\ hist' = [hist EXCEPT !.failed = TRUE]
  /\ UNCHANGED <<env, arg, floating>>

\* line 81 and the loop test of line 68
GetRowWaitForTimeout ==
  /\ pc = "getRow.waitForTimeout"
  /\ loc' = [loc EXCEPT !.elapsed = @ + RetrySleep]
  /\ pc' = getRowLoopPc(loc.elapsed + RetrySleep, arg.timeout)
  /\ UNCHANGED <<env, arg, floating, outcome, hist>>

\* lines 84-89
GetRowNotFound ==
  /\ pc = "getRow.allInnerTexts"
  /\ Reject(Error("Row not found after", {arg.rowText}, TRUE))
  /\ UNCHANGED <<env, arg, floating, hist>>

\* time passes while getRow awaits the browser
Tick ==
  /\ pc \in GetRowPcs
  /\ loc.elapsed < arg.timeout
  /\ loc' = [loc EXCEPT !.elapsed = @ + RetrySleep]
  /\ UNCHANGED <<env, arg, pc, floating, outcome, hist>>

(***************************************************************************)
(* The page re-renders                                                     *)
(***************************************************************************)
Rerender ==
  /\ \E t \in Tables \ {table} :
       /\ table' = t
       /\ hist' = [hist EXCEPT
            !.dirty = TRUE,
            !.scanDirty = TRUE,
            !.prevCell = NoCell,
            !.stayed = /\ pc \in GetRowPcs
                       /\ arg.op = "getRow"
                       /\ HasMatchingRow(t, arg.rowText, arg.mode)
                       /\ \/ hist.stayed /\ HasMatchingRow(table, arg.rowText, arg.mode)
                          \/ loc.elapsed < arg.timeout]
  /\ UNCHANGED <<targetVisible, fieldCount, arg, pc, loc, floating, outcome>>

\* line 63: options?.timeout ?? 5000
Timeout(opt) == IF opt = Undefined THEN DefaultTimeout ELSE opt[1]

\* an operation that does not use them starts with no target and no fields
NoTarget == targetVisible' = FALSE /\ fieldCount' = NoFields
CanCall == pc = "idle" /\ floating = {}

\* the awaiting test takes the settled result and goes on
Return ==
  /\ pc = "settled"
  /\ floating = {}
  /\ pc' = "idle"
  /\ arg' = NoArgs
  /\ loc' = NoLocals
  /\ hist' = NoHistory
  /\ outcome' = Pending
  /\ NoTarget
  /\ UNCHANGED <<table, floating>>

CallGetRow ==
  /\ CanCall
  /\ \E rowText \in RowTexts, opt \in TimeoutOptions, mode \in MatchModes :
       arg' = [NoArgs EXCEPT !.op = "getRow", !.rowText = rowText,
                             !.timeout = Timeout(opt), !.mode = mode]
  /\ getRowStart(NoHistory)
  /\ outcome' = Pending
  /\ NoTarget
  /\ UNCHANGED <<table, floating>>

(***************************************************************************)
(* WebTableHelper.getHeaders / getColumnIndex                              *)
(***************************************************************************)
\* line 30: headers.map(h => h.trim())
getHeaders(t) == [k \in 1..Len(t.headers) |-> trim(t.headers[k])]

\* the last matching header instead of the first
findIndexLast(headers, columnName, mode) ==
  IF \E k \in 1..Len(headers) : match(headers[k], columnName, mode)
    THEN (CHOOSE k \in 1..Len(headers) :
            /\ match(headers[k], columnName, mode)
            /\ \A j \in (k + 1)..Len(headers) : ~match(headers[j], columnName, mode)) - 1
    ELSE -1

\* line 41: headers.findIndex(h => this.match(h, columnName, mode)); 0-based, -1 if none
findIndex(headers, columnName, mode) ==
  IF \E k \in 1..Len(headers) : match(headers[k], columnName, mode)
    THEN (CHOOSE k \in 1..Len(headers) :
            /\ match(headers[k], columnName, mode)
            /\ \A j \in 1..(k - 1) : ~match(headers[j], columnName, mode)) - 1
    ELSE -1

ClickOps == {"clickCellAction", "clickOnTableRowActionIcon"}
CellValueOps == {"getCellValue", "verifyTableCellValue"}

\* the match mode each caller passes to getColumnIndex
ColumnMode == IF arg.op \in CellValueOps \/ arg.op = "getColumnIndex"
              THEN arg.columnMatchMode ELSE "partial"

\* the code that runs when getColumnIndex returns `index` to its caller
getColumnIndexReturn(index) ==
  LET l == [loc EXCEPT !.colIndex = index] IN
  CASE arg.op = "getColumnIndex" ->
         Resolve(l) /\ floating' = floating
    [] arg.op \in CellValueOps ->
         loc' = l /\ pc' = "getCellValue.toBeVisible" /\ UNCHANGED <<outcome, floating>>
    [] arg.op \in ClickOps ->
         \* line 147: expect(button).toBeVisible() is started and not awaited
         /\ loc' = l
         /\ floating' = floating \cup {"expect.toBeVisible"}
         /\ pc' = "clickCellAction.click"
         /\ outcome' = outcome
    [] OTHER ->
         loc' = l /\ pc' = "getColumnValues.count" /\ UNCHANGED <<outcome, floating>>

\* lines 40-53: getHeaders settles, the index is searched
GetColumnIndex ==
  /\ pc = "getHeaders.allInnerTexts"
  /\ LET index == findIndex(getHeaders(table), arg.columnName, ColumnMode) IN
       IF index = -1
         THEN Reject(Error("Column not found", {arg.columnName}, TRUE))
              /\ floating' = floating
         ELSE getColumnIndexReturn(index)
  /\ UNCHANGED <<env, arg, hist>>

(***************************************************************************)
(* WebTableHelper.getCellValue, WebTablePage.verifyTableCellValue          *)
(***************************************************************************)
HasCell(t, row, col) ==
  /\ HasRow(t, row)
  /\ col >= 0
  /\ col < Len(RowAt(t, row).cells)
CellAt(t, row, col) == RowAt(t, row).cells[col + 1]

\* without the `|| null`: an empty text stays the empty string
trimOrEmpty(textContent) ==
  IF textContent = Null THEN Null ELSE trim(textContent)

\* line 122: (await cell.textContent())?.trim() || null
trimOrNull(textContent) ==
  IF textContent = Null THEN Null
  ELSE IF trim(textContent) = <<>> THEN Null ELSE trim(textContent)

\* the cell locator is resolved against the page as it is now
Select(h) == [h EXCEPT !.selected = TRUE,
                       !.selInRange = @ /\ loc.colIndex < Len(table.headers)]

\* line 120: await expect(cell).toBeVisible()
GetCellValueToBeVisible ==
  /\ pc = "getCellValue.toBeVisible"
  /\ IF HasCell(table, loc.row, loc.colIndex)
       THEN /\ pc' = "getCellValue.textContent"
            /\ hist' = Select(hist)
            /\ UNCHANGED <<loc, outcome>>
       ELSE /\ Reject(Error("expect.toBeVisible", {}, TRUE))
            /\ hist' = [Select(hist) EXCEPT !.failed = TRUE]
  /\ UNCHANGED <<env, arg, floating>>

\* line 122
GetCellValueTextContent ==
  /\ pc = "getCellValue.textContent"
  /\ IF HasCell(table, loc.row, loc.colIndex)
       THEN /\ loc' = [loc EXCEPT !.value = trimOrNull(CellAt(table, loc.row, loc.colIndex))]
            /\ pc' = "getCellValue.attach"
            /\ hist' = Select(hist)
            /\ outcome' = outcome
       ELSE /\ Reject(LibraryError({}))
            /\ hist' = [Select(hist) EXCEPT !.failed = TRUE]
  /\ UNCHANGED <<env, arg, floating>>

\* lines 128-133, and webTablePage.ts line 58 for verifyTableCellValue
GetCellValueReturn ==
  /\ pc = "getCellValue.attach"
  /\ IF arg.op = "verifyTableCellValue" /\ loc.value # arg.expectedValue
       THEN /\ Reject(Error("Actual and Expected NOT matched", {}, TRUE))
            /\ hist' = [hist EXCEPT !.failed = TRUE]
       ELSE Resolve(loc) /\ hist' = hist
  /\ UNCHANGED <<env, arg, floating>>

\* the test calls getCellValue again with the same arguments; the cell the first
\* call resolved is remembered when the table has not re-rendered since that call
CallGetCellValueAgain ==
  /\ pc = "settled"
  /\ floating = {}
  /\ arg.op = "getCellValue"
  /\ arg' = arg
  /\ getRowStart([NoHistory EXCEPT !.prevCell =
                    IF outcome.kind = "ok" /\ ~hist.dirty
                    THEN <<loc.row, loc.colIndex>> ELSE NoCell])
  /\ outcome' = Pending
  /\ NoTarget
  /\ UNCHANGED <<table, floating>>

CallGetCellValue ==
  /\ CanCall
  /\ \E rowText \in RowTexts, columnName \in ColumnNames, opt \in TimeoutOptions,
        matchMode \in MatchModes, columnMatchMode \in MatchModes :
       arg' = [NoArgs EXCEPT !.op = "getCellValue", !.rowText = rowText,
                             !.columnName = columnName, !.timeout = Timeout(opt),
                             !.mode = matchMode, !.columnMatchMode = columnMatchMode]
  /\ getRowStart(NoHistory)
  /\ outcome' = Pending
  /\ NoTarget
  /\ UNCHANGED <<table, floating>>

CallVerifyTableCellValue ==
  /\ CanCall
  /\ \E rowName \in RowTexts, columnName \in ColumnNames, expectedValue \in ExpectedValues :
       arg' = [NoArgs EXCEPT !.op = "verifyTableCellValue", !.rowText = rowName,
                             !.columnName = columnName, !.expectedValue = expectedValue]
  /\ getRowStart(NoHistory)
  /\ outcome' = Pending
  /\ NoTarget
  /\ UNCHANGED <<table, floating>>

CallGetColumnIndex ==
  /\ CanCall
  /\ \E columnName \in ColumnNames, mode \in MatchModes :
       arg' = [NoArgs EXCEPT !.op = "getColumnIndex", !.columnName = columnName,
                             !.columnMatchMode = mode]
  /\ pc' = "getHeaders.allInnerTexts"
  /\ loc' = NoLocals
  /\ hist' = NoHistory
  /\ outcome' = Pending
  /\ NoTarget
  /\ UNCHANGED <<table, floating>>

(***************************************************************************)
(* WebTableHelper.clickCellAction, WebTablePage.clickOnTableRowActionIcon  *)
(***************************************************************************)
ButtonVisible == HasCell(table, loc.row, loc.colIndex) /\ targetVisible

\* line 148: await button.click()
ClickCellActionClick ==
  /\ pc = "clickCellAction.click"
  /\ IF ButtonVisible
       THEN Resolve(loc) /\ hist' = Select(hist)
       ELSE /\ Reject(LibraryError({arg.ident}))
            /\ hist' = [Select(hist) EXCEPT !.failed = TRUE]
  /\ UNCHANGED <<env, arg, floating>>

\* the assertion of line 147 settles on its own
FloatingToBeVisible ==
  /\ "expect.toBeVisible" \in floating
  /\ floating' = floating \ {"expect.toBeVisible"}
  /\ hist' = IF ButtonVisible THEN hist ELSE [hist EXCEPT !.failed = TRUE]
  /\ UNCHANGED <<env, arg, pc, loc, outcome>>

CallClickCellAction ==
  /\ CanCall
  /\ \E op \in ClickOps, rowText \in RowTexts, columnName \in ColumnNames,
        buttonName \in Idents :
       arg' = [NoArgs EXCEPT !.op = op, !.rowText = rowText,
                             !.columnName = columnName, !.ident = buttonName]
  /\ getRowStart(NoHistory)
  /\ outcome' = Pending
  /\ targetVisible' \in BOOLEAN
  /\ fieldCount' = NoFields
  /\ UNCHANGED <<table, floating>>

\* the element the running operation's locator designates appears or disappears
TargetPcs == {"clickCellAction.click", "getTableCellValue.waitFor",
              "getTableCellValue.innerText", "script"}
TargetChange ==
  /\ pc \in TargetPcs \/ floating # {}
  /\ targetVisible' = ~targetVisible
  /\ UNCHANGED <<table, fieldCount, arg, pc, loc, floating, outcome, hist>>

(***************************************************************************)
(* WebTableHelper.getColumnValues                                          *)
(***************************************************************************)
\* lines 160-164: rows.count() settles; the loop starts at row 1
GetColumnValuesCount ==
  /\ pc = "getColumnValues.count"
  /\ LET count == Len(table.rows)
         l == [loc EXCEPT !.count = count, !.i = 1] IN
       IF 1 < count
         THEN loc' = l /\ pc' = "getColumnValues.textContent" /\ outcome' = outcome
         ELSE Resolve(l)
  /\ UNCHANGED <<env, arg, floating, hist>>

\* lines 165-167
GetColumnValuesTextContent ==
  /\ pc = "getColumnValues.textContent"
  /\ IF HasCell(table, loc.i, loc.colIndex)
       THEN LET text == trimOrNull(CellAt(table, loc.i, loc.colIndex))
                l == [loc EXCEPT !.i = @ + 1,
                                 !.values = IF text # Null THEN Append(@, text) ELSE @]
            IN /\ IF loc.i + 1 < loc.count
                    THEN loc' = l /\ pc' = pc /\ outcome' = outcome
                    ELSE Resolve(l)
               /\ hist' = Select(hist)
       ELSE /\ Reject(LibraryError({}))
            /\ hist' = [Select(hist) EXCEPT !.failed = TRUE]
  /\ UNCHANGED <<env, arg, floating>>

CallGetColumnValues ==
  /\ CanCall
  /\ \E columnName \in ColumnNames :
       arg' = [NoArgs EXCEPT !.op = "getColumnValues", !.columnName = columnName]
  /\ pc' = "getHeaders.allInnerTexts"
  /\ loc' = NoLocals
  /\ hist' = NoHistory
  /\ outcome' = Pending
  /\ NoTarget
  /\ UNCHANGED <<table, floating>>

(***************************************************************************)
(* WebTablePage.getTableColumnIndexByName / getTableCellValue              *)
(***************************************************************************)
HasHeader(t, idx) == idx >= 0 /\ idx < Len(t.headers)

\* line 95: headerText.toLowerCase() === columnName.toLowerCase()
headerEquals(headerText, columnName) == toLowerCase(headerText) = toLowerCase(columnName)

\* line 100
ColumnNotFound == Error("Column with name not found", {arg.columnName}, TRUE)

\* `return i`: the 0-based position
getTableColumnIndexByNameReturnsI(index) ==
  LET l == [loc EXCEPT !.colIndex = index - 1] IN
  IF arg.op = "getTableColumnIndexByName"
    THEN Resolve(l)
    ELSE loc' = l /\ pc' = "getTableCellValue.waitFor" /\ outcome' = outcome

\* `return i + 1` of getTableColumnIndexByName: resumes the caller
getTableColumnIndexByNameReturn(index) ==
  LET l == [loc EXCEPT !.colIndex = index] IN
  IF arg.op = "getTableColumnIndexByName"
    THEN Resolve(l)
    ELSE loc' = l /\ pc' = "getTableCellValue.waitFor" /\ outcome' = outcome

\* line 91: headers.count() settles
GetTableColumnIndexByNameCount ==
  /\ pc = "getTableColumnIndexByName.count"
  /\ LET count == Len(table.headers) IN
       IF 0 < count
         THEN /\ loc' = [loc EXCEPT !.count = count, !.i = 0]
              /\ pc' = "getTableColumnIndexByName.innerText"
              /\ outcome' = outcome
         ELSE Reject(ColumnNotFound)
  /\ UNCHANGED <<env, arg, floating, hist>>

\* lines 94-98
GetTableColumnIndexByNameInnerText ==
  /\ pc = "getTableColumnIndexByName.innerText"
  /\ IF HasHeader(table, loc.i)
       THEN /\ IF headerEquals(trim(table.headers[loc.i + 1]), arg.columnName)
                 THEN getTableColumnIndexByNameReturn(loc.i + 1)
                 ELSE IF loc.i + 1 < loc.count
                        THEN loc' = [loc EXCEPT !.i = @ + 1] /\ UNCHANGED <<pc, outcome>>
                        ELSE Reject(ColumnNotFound)
            /\ hist' = hist
       ELSE /\ Reject(LibraryError({}))
            /\ hist' = [hist EXCEPT !.failed = TRUE]
  /\ UNCHANGED <<env, arg, floating>>

\* lines 127-133: cellLocator.waitFor inside try/catch
GetTableCellValueWaitFor ==
  /\ pc = "getTableCellValue.waitFor"
  /\ IF targetVisible
       THEN pc' = "getTableCellValue.innerText" /\ UNCHANGED <<loc, outcome, hist>>
       ELSE /\ Reject(Error("The table cell NOT found", {arg.rowText, arg.columnName}, TRUE))
            /\ hist' = [hist EXCEPT !.failed = TRUE]
  /\ UNCHANGED <<env, arg, floating>>

\* line 135: (await cellLocator.innerText()).trim()
GetTableCellValueInnerText ==
  /\ pc = "getTableCellValue.innerText"
  /\ IF targetVisible
       THEN /\ \E innerText \in ExpectedValues :
                 Resolve([loc EXCEPT !.value = trim(innerText)])
            /\ hist' = hist
       ELSE /\ Reject(LibraryError({arg.rowText}))
            /\ hist' = [hist EXCEPT !.failed = TRUE]
  /\ UNCHANGED <<env, arg, floating>>

CallGetTableColumnIndexByName ==
  /\ CanCall
  /\ \E columnName \in ColumnNames :
       arg' = [NoArgs EXCEPT !.op = "getTableColumnIndexByName", !.columnName = columnName]
  /\ pc' = "getTableColumnIndexByName.count"
  /\ loc' = NoLocals
  /\ hist' = NoHistory
  /\ outcome' = Pending
  /\ NoTarget
  /\ UNCHANGED <<table, floating>>

CallGetTableCellValue ==
  /\ CanCall
  /\ \E rowName \in RowTexts, columnName \in ColumnNames :
       arg' = [NoArgs EXCEPT !.op = "getTableCellValue", !.rowText = rowName,
                             !.columnName = columnName]
  /\ pc' = "getTableColumnIndexByName.count"
  /\ loc' = NoLocals
  /\ hist' = NoHistory
  /\ outcome' = Pending
  /\ targetVisible' \in BOOLEAN
  /\ fieldCount' = NoFields
  /\ UNCHANGED <<table, floating>>

(***************************************************************************)
(* WebTablePage.getRandomRowName                                           *)
(***************************************************************************)
\* innerText of an element without text is the empty string
innerTextOf(textContent) == IF textContent = Null THEN <<>> ELSE textContent

\* lines 172-181: the names are collected; one is drawn with Math.random
getRandomRowNameReturn(l) ==
  IF l.values = <<>>
    THEN Reject(Error("No valid row names extracted", {}, TRUE))
    ELSE \E randomIndex \in 1..Len(l.values) :
           Resolve([l EXCEPT !.value = l.values[randomIndex]])

\* line 158: rowsLocator.first().waitFor, not wrapped
GetRandomRowNameWaitFor ==
  /\ pc = "getRandomRowName.waitFor"
  /\ IF Len(table.rows) > 0
       THEN pc' = "getRandomRowName.count" /\ UNCHANGED <<loc, outcome, hist>>
       ELSE /\ Reject(LibraryError({}))
            /\ hist' = [hist EXCEPT !.failed = TRUE]
  /\ UNCHANGED <<env, arg, floating>>

\* lines 159-167
GetRandomRowNameCount ==
  /\ pc = "getRandomRowName.count"
  /\ LET count == Len(table.rows)
         l == [loc EXCEPT !.count = count, !.i = 1] IN
       IF count = 0
         THEN Reject(Error("No rows found in the table", {}, TRUE))
         ELSE IF 1 < count
                THEN loc' = l /\ pc' = "getRandomRowName.innerText" /\ outcome' = outcome
                ELSE getRandomRowNameReturn(l)
  /\ UNCHANGED <<env, arg, floating, hist>>

\* lines 168-169
GetRandomRowNameInnerText ==
  /\ pc = "getRandomRowName.innerText"
  /\ IF HasCell(table, loc.i, 0)
       THEN LET rowFirstName == trim(innerTextOf(CellAt(table, loc.i, 0)))
                l == [loc EXCEPT !.i = @ + 1,
                                 !.values = IF rowFirstName # <<>>
                                            THEN Append(@, rowFirstName) ELSE @]
            IN /\ IF loc.i + 1 < loc.count
                    THEN loc' = l /\ UNCHANGED <<pc, outcome>>
                    ELSE getRandomRowNameReturn(l)
               /\ hist' = hist
       ELSE /\ Reject(LibraryError({}))
            /\ hist' = [hist EXCEPT !.failed = TRUE]
  /\ UNCHANGED <<env, arg, floating>>

CallGetRandomRowName ==
  /\ CanCall
  /\ arg' = [NoArgs EXCEPT !.op = "getRandomRowName"]
  /\ pc' = "getRandomRowName.waitFor"
  /\ loc' = NoLocals
  /\ hist' = NoHistory
  /\ outcome' = Pending
  /\ NoTarget
  /\ UNCHANGED <<table, floating>>

(***************************************************************************)
(* WebTablePage.getCellByRowAndColumn                                      *)
(***************************************************************************)
\* line 191: headerTexts.indexOf(columnName); 0-based, -1 if none
indexOf(headerTexts, columnName) ==
  IF \E k \in 1..Len(headerTexts) : headerTexts[k] = columnName
    THEN (CHOOSE k \in 1..Len(headerTexts) :
            /\ headerTexts[k] = columnName
            /\ \A j \in 1..(k - 1) : headerTexts[j] # columnName) - 1
    ELSE -1

\* line 198: the rows whose name matches new RegExp(rowText, 'i'), and their cells
RECURSIVE cellsOfRowsNamed(_, _)
cellsOfRowsNamed(rows, rowText) ==
  IF rows = <<>> THEN <<>>
  ELSE (IF includes(toLowerCase(Head(rows).text), toLowerCase(rowText))
          THEN Head(rows).cells ELSE <<>>)
       \o cellsOfRowsNamed(Tail(rows), rowText)

\* lines 188-196
GetCellByRowAndColumnHeaders ==
  /\ pc = "getCellByRowAndColumn.allTextContents"
  /\ LET colIndex == indexOf(table.headers, arg.columnName) IN
       IF colIndex = -1
         THEN Reject(ColumnNotFound)
         ELSE /\ loc' = [loc EXCEPT !.colIndex = colIndex]
              /\ pc' = "getCellByRowAndColumn.textContent"
              /\ outcome' = outcome
  /\ UNCHANGED <<env, arg, floating, hist>>

\* line 201
GetCellByRowAndColumnTextContent ==
  /\ pc = "getCellByRowAndColumn.textContent"
  /\ LET cells == cellsOfRowsNamed(table.rows, arg.rowText) IN
       IF loc.colIndex < Len(cells)
         THEN Resolve([loc EXCEPT !.value = cells[loc.colIndex + 1]]) /\ hist' = hist
         ELSE /\ Reject(LibraryError({arg.rowText}))
              /\ hist' = [hist EXCEPT !.failed = TRUE]
  /\ UNCHANGED <<env, arg, floating>>

CallGetCellByRowAndColumn ==
  /\ CanCall
  /\ \E rowText \in RowTexts, columnName \in ColumnNames :
       arg' = [NoArgs EXCEPT !.op = "getCellByRowAndColumn", !.rowText = rowText,
                             !.columnName = columnName]
  /\ pc' = "getCellByRowAndColumn.allTextContents"
  /\ loc' = NoLocals
  /\ hist' = NoHistory
  /\ outcome' = Pending
  /\ NoTarget
  /\ UNCHANGED <<table, floating>>

(***************************************************************************)
(* CommonUserActionsPage.inputOnField                                      *)
(***************************************************************************)
\* lines 28, 36, 44, 53: a strategy's count() settles
InputOnFieldCount ==
  /\ pc = "inputOnField.count"
  /\ hist' = [hist EXCEPT !.queried = Append(@, Strategies[loc.k]),
                          !.filled = IF fieldCount[loc.k] > 0
                                     THEN Append(@, Strategies[loc.k]) ELSE @]
  /\ IF fieldCount[loc.k] > 0
       THEN pc' = "inputOnField.fill" /\ UNCHANGED <<loc, outcome>>
       ELSE IF loc.k < Len(Strategies)
              THEN loc' = [loc EXCEPT !.k = @ + 1] /\ UNCHANGED <<pc, outcome>>
              ELSE Reject(Error("Input field not found using role, label, placeholder, or relative XPath",
                                {arg.ident}, TRUE))
  /\ UNCHANGED <<env, arg, floating>>

\* lines 29, 37, 45, 54: the fill settles; it needs exactly one element
InputOnFieldFill ==
  /\ pc = "inputOnField.fill"
  /\ IF fieldCount[loc.k] = 1
       THEN Resolve(loc) /\ hist' = hist
       ELSE /\ Reject(LibraryError({arg.ident}))
            /\ hist' = [hist EXCEPT !.failed = TRUE]
  /\ UNCHANGED <<env, arg, floating>>

CallInputOnField ==
  /\ CanCall
  /\ \E fieldName \in Idents :
       arg' = [NoArgs EXCEPT !.op = "inputOnField", !.ident = fieldName]
  /\ pc' = "inputOnField.count"
  /\ loc' = [NoLocals EXCEPT !.k = 1]
  /\ hist' = NoHistory
  /\ outcome' = Pending
  /\ targetVisible' = FALSE
  /\ fieldCount' \in [1..Len(Strategies) -> 0..MaxMatches]
  /\ UNCHANGED <<table, floating>>

\* the form changes while inputOnField runs
FieldChange ==
  /\ pc \in {"inputOnField.count", "inputOnField.fill"}
  /\ \E s \in 1..Len(Strategies), n \in 0..MaxMatches :
       /\ n # fieldCount[s]
       /\ fieldCount' = [fieldCount EXCEPT ![s] = n]
  /\ hist' = [hist EXCEPT !.dirty = TRUE]
  /\ UNCHANGED <<table, targetVisible, arg, pc, loc, floating, outcome>>

(***************************************************************************)
(* The operations that wait for their element and then act on it           *)
(***************************************************************************)
\* locator.waitFor inside try/catch: the catch rethrows with msg
Guarded(msg) == [act |-> "waitFor", target |-> TRUE, wrapped |-> TRUE, msg |-> msg]
\* an interaction on the operation's locator
OnLocator(act) == [act |-> act, target |-> TRUE, wrapped |-> FALSE, msg |-> ""]
\* an interaction on the page itself
OnPage(act) == [act |-> act, target |-> FALSE, wrapped |-> FALSE, msg |-> ""]

clickOnButton == <<Guarded("The button to be clicked is NOT visible"), OnLocator("click")>>

inputOnTextField ==
  <<Guarded("The field is NOT visible"), OnLocator("fill"), OnLocator("press")>>

RECURSIVE inputMultiValuesLoop(_)
inputMultiValuesLoop(values) ==
  IF values = <<>> THEN <<>>
  ELSE <<OnLocator("type"), OnPage("waitForTimeout"), OnPage("keyboard.press")>>
       \o inputMultiValuesLoop(Tail(values))

inputMultiValues(values) ==
  <<Guarded("The field is NOT visible")>> \o inputMultiValuesLoop(values)

\* line 117: !values || values.length === 0 || values.every(v => !v.trim())
noValidValues(values) == \A k \in 1..Len(values) : trim(values[k]) = <<>>

selectCheckbox == <<Guarded("The checkbox NOT found"), OnLocator("click")>>

selectRadioButton == <<Guarded("The checkbox NOT found"), OnLocator("click")>>

selectDate ==
  <<Guarded("Date input field not visible"), OnLocator("click"), OnLocator("fill"),
    OnLocator("press")>>

clickOnTableRowEditIcon ==
  <<Guarded("The icon edit button NOT found"), OnLocator("click")>>

ScriptedOps == {"clickOnButton", "inputOnTextField", "selectCheckbox",
                "selectRadioButton", "selectDate", "clickOnTableRowEditIcon"}

Script(a) ==
  CASE a.op = "clickOnButton" -> clickOnButton
    [] a.op = "inputOnTextField" -> inputOnTextField
    [] a.op = "inputMultiValues" -> inputMultiValues(a.values)
    [] a.op = "selectCheckbox" -> selectCheckbox
    [] a.op = "selectRadioButton" -> selectRadioButton
    [] a.op = "selectDate" -> selectDate
    [] a.op = "clickOnTableRowEditIcon" -> clickOnTableRowEditIcon

\* the awaited interaction settles
ScriptStep ==
  /\ pc = "script"
  /\ LET step == Script(arg)[loc.k] IN
       IF step.target /\ ~targetVisible
         THEN /\ Reject(IF step.wrapped THEN Error(step.msg, {arg.ident}, TRUE)
                        ELSE LibraryError({arg.ident}))
              /\ hist' = [hist EXCEPT !.failed = TRUE]
         ELSE /\ IF loc.k < Len(Script(arg))
                   THEN loc' = [loc EXCEPT !.k = @ + 1] /\ UNCHANGED <<pc, outcome>>
                   ELSE Resolve(loc)
              /\ hist' = hist
  /\ UNCHANGED <<env, arg, floating>>

CallScripted ==
  /\ CanCall
  /\ \E op \in ScriptedOps, ident \in Idents :
       arg' = [NoArgs EXCEPT !.op = op, !.ident = ident]
  /\ pc' = "script"
  /\ loc' = [NoLocals EXCEPT !.k = 1]
  /\ hist' = NoHistory
  /\ outcome' = Pending
  /\ targetVisible' \in BOOLEAN
  /\ fieldCount' = NoFields
  /\ UNCHANGED <<table, floating>>

\* lines 114-123
CallInputMultiValues ==
  /\ CanCall
  /\ \E fieldName \in Idents, values \in MultiValues :
       /\ arg' = [NoArgs EXCEPT !.op = "inputMultiValues", !.ident = fieldName,
                                !.values = values]
       /\ IF noValidValues(values)
            THEN /\ outcome' = Error("No valid values provided", {fieldName}, TRUE)
                 /\ pc' = "settled"
                 /\ loc' = NoLocals
            ELSE /\ outcome' = Pending
                 /\ pc' = "script"
                 /\ loc' = [NoLocals EXCEPT !.k = 1]
  /\ hist' = NoHistory
  /\ targetVisible' \in BOOLEAN
  /\ fieldCount' = NoFields
  /\ UNCHANGED <<table, floating>>

Next ==
  \/ Return
  \/ CallGetCellValueAgain
  \/ CallGetRow
  \/ GetRowCount
  \/ GetRowInnerText
  \/ GetRowWaitForTimeout
  \/ GetRowNotFound
  \/ Tick
  \/ Rerender
  \/ CallGetColumnIndex
  \/ GetColumnIndex
  \/ CallGetCellValue
  \/ CallVerifyTableCellValue
  \/ GetCellValueToBeVisible
  \/ GetCellValueTextContent
  \/ GetCellValueReturn
  \/ CallClickCellAction
  \/ ClickCellActionClick
  \/ FloatingToBeVisible
  \/ TargetChange
  \/ CallGetColumnValues
  \/ GetColumnValuesCount
  \/ GetColumnValuesTextContent
  \/ CallGetTableColumnIndexByName
  \/ CallGetTableCellValue
  \/ GetTableColumnIndexByNameCount
  \/ GetTableColumnIndexByNameInnerText
  \/ GetTableCellValueWaitFor
  \/ GetTableCellValueInnerText
  \/ CallGetRandomRowName
  \/ GetRandomRowNameWaitFor
  \/ GetRandomRowNameCount
  \/ GetRandomRowNameInnerText
  \/ CallGetCellByRowAndColumn
  \/ GetCellByRowAndColumnHeaders
  \/ GetCellByRowAndColumnTextContent
  \/ CallInputOnField
  \/ InputOnFieldCount
  \/ InputOnFieldFill
  \/ FieldChange
  \/ CallScripted
  \/ CallInputMultiValues
  \/ ScriptStep

Spec == Init /\ [][Next]_vars

(***************************************************************************)
(* getRow alone, with the scheduling the event loop gives it: an awaited   *)
(* interaction settles (the library answers or times out) and the          *)
(* continuation then runs.                                                 *)
(***************************************************************************)
NextGetRow ==
  \/ Return
  \/ CallGetRow
  \/ GetRowCount
  \/ GetRowInnerText
  \/ GetRowWaitForTimeout
  \/ GetRowNotFound
  \/ Tick
  \/ Rerender

FairSpec ==
  /\ Init
  /\ [][NextGetRow]_vars
  /\ WF_vars(GetRowCount)
  /\ WF_vars(GetRowInnerText)
  /\ WF_vars(GetRowWaitForTimeout)
  /\ WF_vars(GetRowNotFound)


(***************************************************************************)
(* Properties                                                              *)
(***************************************************************************)
Settled(op) == pc = "settled" /\ arg.op = op
Threw(msg) == outcome.kind = "error" /\ outcome.msg = msg

\* the first role=row element that matches rowText, 0-based
IsFirstMatchingRow(t, r, rowText, mode) ==
  /\ HasRow(t, r)
  /\ RowMatches(RowAt(t, r), rowText, mode)
  /\ \A q \in 0..(r - 1) : ~RowMatches(RowAt(t, q), rowText, mode)

\* a header matches columnName on lower-cased trimmed text
HeaderMatches(header, columnName, mode) ==
  LET A == trim(toLowerCase(header))
      B == trim(toLowerCase(columnName))
  IN IF mode = "exact" THEN A = B ELSE includes(A, B)

IsFirstMatchingColumn(t, c, columnName, mode) ==
  /\ HasHeader(t, c)
  /\ HeaderMatches(t.headers[c + 1], columnName, mode)
  /\ \A q \in 0..(c - 1) : ~HeaderMatches(t.headers[q + 1], columnName, mode)

\* C1: against one rendered table, a getCellValue call that returns has resolved
\* the cell of the first row matching rowText at the first column whose header
\* matches columnName, and a second call with the same arguments resolves the
\* same cell.
C1_SameCellResolved ==
  (Settled("getCellValue") /\ outcome.kind = "ok" /\ ~hist.dirty) =>
    /\ IsFirstMatchingRow(table, loc.row, arg.rowText, arg.mode)
    /\ IsFirstMatchingColumn(table, loc.colIndex, arg.columnName, arg.columnMatchMode)
    /\ HasCell(table, loc.row, loc.colIndex)
    /\ hist.prevCell \in {NoCell, <<loc.row, loc.colIndex>>}

C1_Witness ==
  /\ Settled("getCellValue") /\ outcome.kind = "ok" /\ ~hist.dirty
  /\ hist.prevCell = <<loc.row, loc.colIndex>>
  /\ loc.row = 2

\* C2: whenever getCellValue, clickCellAction or getColumnValues resolves a cell
\* locator, the column index it uses is below the number of headers rendered at
\* that moment, also when the table re-rendered after getColumnIndex read the
\* headers; and the index getColumnIndex returns is that of a matching header.
C2_IndexInRenderedHeaderRow ==
  /\ hist.selInRange
  /\ (Settled("getColumnIndex") /\ outcome.kind = "ok" /\ ~hist.dirty) =>
        /\ HasHeader(table, loc.colIndex)
        /\ HeaderMatches(table.headers[loc.colIndex + 1], arg.columnName,
                         arg.columnMatchMode)

\* the identifiers the caller passed to the running operation
PassedIdentifiers == {arg.rowText, arg.columnName, arg.ident} \ {NoArg}

ClaimedOperations ==
  {"inputOnField", "clickOnButton", "inputOnTextField", "inputMultiValues",
   "selectCheckbox", "selectRadioButton", "selectDate", "getRow", "getColumnIndex",
   "getCellValue", "clickCellAction", "getColumnValues", "clickOnTableRowEditIcon",
   "getTableCellValue", "getCellByRowAndColumn", "getRandomRowName"}

\* C3: an operation that ends in an error because an element was not found has a
\* message that includes an identifier the caller passed and the underlying cause.
C3_ErrorNamesIdentifierAndCause ==
  (pc = "settled" /\ arg.op \in ClaimedOperations /\ outcome.kind = "error"
     /\ PassedIdentifiers # {}) =>
    /\ outcome.ids \cap PassedIdentifiers # {}
    /\ outcome.cause

\* C4: an operation whose own interaction or assertion has failed does not
\* resolve successfully.
C4_NoFailureRecovered ==
  (pc = "settled" /\ outcome.kind = "ok") => ~hist.failed

\* the interactions of the running operation that have been issued and not settled
InFlight == (IF pc \in {"idle", "settled"} THEN {} ELSE {pc}) \cup floating

\* C5: at most one interaction of an operation is in flight at any time; in
\* clickCellAction the visibility check has settled before the click is issued.
C5_OneInteractionInFlight ==
  /\ Cardinality(InFlight) <= 1
  /\ pc = "clickCellAction.click" => "expect.toBeVisible" \notin floating

ClaimedOrder == <<"role", "label", "placeholder", "xpath">>

\* C6: inputOnField queries the strategies in the order role, label, placeholder,
\* XPath, stops querying at the first one that matches, fills exactly once with
\* that one, and with no strategy matching throws an error naming fieldName and
\* fills nothing.
C6_InputOnFieldFallbackOrder ==
  /\ Len(hist.filled) <= 1
  /\ hist.queried = SubSeq(ClaimedOrder, 1, Len(hist.queried))
  /\ hist.filled # <<>> => hist.filled = <<hist.queried[Len(hist.queried)]>>
  /\ pc = "inputOnField.fill" => Len(hist.filled) = 1
  /\ Settled("inputOnField") =>
       /\ outcome.kind = "ok" => Len(hist.filled) = 1
       /\ hist.filled = <<>> =>
            /\ Threw("Input field not found using role, label, placeholder, or relative XPath")
            /\ arg.ident \in outcome.ids
            /\ hist.queried = ClaimedOrder
       /\ ~hist.dirty =>
            IF \E k \in 1..Len(ClaimedOrder) : fieldCount[k] > 0
              THEN \E k \in 1..Len(ClaimedOrder) :
                     /\ fieldCount[k] > 0
                     /\ \A j \in 1..(k - 1) : fieldCount[j] = 0
                     /\ hist.filled = <<ClaimedOrder[k]>>
                     /\ Len(hist.queried) = k
              ELSE hist.filled = <<>>

C6_Witness ==
  /\ Settled("inputOnField") /\ outcome.kind = "ok" /\ ~hist.dirty
  /\ hist.filled = <<"placeholder">>
  /\ fieldCount[4] > 0

\* C7: every getRow call ends by returning a row or, once the elapsed time has
\* reached the timeout with no match found, by throwing the 'Row ... not found
\* after' error, and in no other way.
C7_ReturnsOrRowNotFound ==
  /\ pc = "getRow.allInnerTexts" => loc.elapsed >= arg.timeout
  /\ Settled("getRow") => (outcome.kind = "ok" \/ Threw("Row not found after"))

\* What does hold of getRow's loop: a scan starts only while the elapsed time is
\* below the timeout, the 'Row ... not found after' error is thrown only once the
\* elapsed time has reached the timeout, and every call settles.
GetRowTerminates ==
  /\ [][(pc' = "getRow.count" /\ pc # "getRow.count") => loc'.elapsed < arg'.timeout]_vars
  /\ [](pc = "getRow.allInnerTexts" => loc.elapsed >= arg.timeout)
  /\ ((pc \in GetRowPcs) ~> (pc = "settled"))

\* the k-th rendered header, trimmed, equals columnName ignoring case
Equal(k) == toLowerCase(trim(table.headers[k])) = toLowerCase(arg.columnName)

\* C8: getTableColumnIndexByName returns the 1-based position of a header whose
\* trimmed text equals columnName ignoring case, within the headers it counted;
\* on an unchanged header row that header is the first such one, and with no
\* such header it throws 'Column with name ... not found.'
C8_OneBasedFirstHeader ==
  /\ [][(arg.op = "getTableColumnIndexByName"
          /\ pc = "getTableColumnIndexByName.innerText" /\ outcome'.kind = "ok") =>
          /\ 1 <= loc'.colIndex /\ loc'.colIndex <= loc.count
          /\ loc'.colIndex <= Len(table.headers)
          /\ Equal(loc'.colIndex)]_vars
  /\ []((Settled("getTableColumnIndexByName") /\ ~hist.dirty) =>
          IF \E k \in 1..Len(table.headers) : Equal(k)
            THEN /\ outcome.kind = "ok"
                 /\ loc.colIndex \in 1..Len(table.headers)
                 /\ Equal(loc.colIndex)
                 /\ \A j \in 1..(loc.colIndex - 1) : ~Equal(j)
            ELSE /\ Threw("Column with name not found")
                 /\ arg.columnName \in outcome.ids)

C8_Witness ==
  /\ Settled("getTableColumnIndexByName") /\ ~hist.dirty
  /\ outcome.kind = "ok"
  /\ loc.colIndex = 2

\* C9: when a row matching rowText became rendered before the timeout elapsed
\* and has stayed rendered since, getRow returns a row and does not throw
\* 'Row ... not found'; a returned row matched rowText in the scan that returned it.
C9_FoundWhenRenderedBeforeTimeout ==
  /\ (Settled("getRow") /\ Threw("Row not found after")) => ~hist.stayed
  /\ (Settled("getRow") /\ outcome.kind = "ok" /\ ~hist.scanDirty) =>
        /\ HasRow(table, loc.row)
        /\ RowMatches(RowAt(table, loc.row), arg.rowText, arg.mode)

\* What does hold of the retry: a scan over an unchanged table ends without a
\* match only when no rendered row matches rowText, and a returned row matched
\* rowText in the scan that returned it.
RetryFindsRenderedRow ==
  /\ [](arg.op = "getRow" /\ pc = "getRow.waitForTimeout" /\ ~hist.scanDirty
          => ~HasMatchingRow(table, arg.rowText, arg.mode))
  /\ [][(arg.op = "getRow" /\ pc = "getRow.innerText" /\ outcome'.kind = "ok")
          => /\ HasRow(table, loc'.row)
             /\ RowMatches(RowAt(table, loc'.row), arg.rowText, arg.mode)]_vars

\* v is s without its leading and trailing spaces
IsTrimOf(v, s) ==
  /\ v # <<>>
  /\ v[1] # " " /\ v[Len(v)] # " "
  /\ \E a \in 0..Len(s) :
       /\ a + Len(v) <= Len(s)
       /\ SubSeq(s, a + 1, a + Len(v)) = v
       /\ \A k \in 1..Len(s) : (k <= a \/ k > a + Len(v)) => s[k] = " "

\* C10: getCellValue returns the trimmed text content of the resolved cell, or
\* null when the text is missing, empty or only spaces; verifyTableCellValue
\* succeeds exactly when that value is identical to expectedValue.
C10_TrimmedValueOrNull ==
  /\ [][(pc = "getCellValue.textContent" /\ pc' = "getCellValue.attach") =>
          LET textContent == CellAt(table, loc.row, loc.colIndex) IN
          IF textContent = Null \/ \A k \in 1..Len(textContent) : textContent[k] = " "
            THEN loc'.value = Null
            ELSE IsTrimOf(loc'.value, textContent)]_vars
  /\ [][(pc = "getCellValue.attach" /\ pc' = "settled") =>
          /\ loc'.value = loc.value
          /\ arg.op = "verifyTableCellValue" =>
               (outcome'.kind = "ok" <=> loc.value = arg.expectedValue)
          /\ arg.op = "getCellValue" => outcome'.kind = "ok"]_vars

C10_Witness ==
  /\ Settled("verifyTableCellValue") /\ outcome.kind = "ok" /\ ~hist.dirty
  /\ CellAt(table, loc.row, loc.colIndex) # loc.value

====
